---- MODULE Spec2Model ----
(***************************************************************************)
(* NexoTime backend (src/main.py over src/database.py): the account table, *)
(* bearer credentials, the Telegram link-code protocol, the daily habit    *)
(* log with its day and week summaries, and the morning/night routines, as *)
(* the state machine the FastAPI handlers implement over the shared SQLite *)
(* database.                                                               *)
(*                                                                         *)
(* Every handler is a plain `def`, so FastAPI runs it on a thread-pool     *)
(* thread with its own SQLAlchemy session (get_db, autoflush=False).  The  *)
(* SELECTs of a handler read the committed database outside a transaction  *)
(* (the sqlite3 driver opens one only before INSERT/UPDATE/DELETE), and    *)
(* db.commit() flushes the pending INSERT/UPDATE and commits it as one     *)
(* transaction.  A handler is therefore a read step followed by a commit   *)
(* step, and handlers of different requests interleave between the two.    *)
(***************************************************************************)
EXTENDS Naturals, Sequences, FiniteSets, TLC

\* ------------------------------------------------------------------ bounds
MaxWorkers == 2
MaxHabits == 2
MaxLogs == 2
MaxRequests == 6
MaxNow == 8
MaxAuthRequests == 3
MaxRoutineRows == 4
MaxRoutineRequests == 3

\* ------------------------------------------------------------ input values
Null == "NULL"
Emails == {"alice@example.com", "bob@example.com"}
Passwords == {"abc12", "secret1"}
TelegramIds == {"111", "222"}
Codes == {"A7X9K2", "B3Y8Z1"}
Dates == {"2025-02-19", "2025-02-20"}
RoutineTypes == {"morning", "night"}
\* The routine_type a client may put in the path or the body.
RequestedTypes == RoutineTypes \cup {"evening"}
Descriptions == {"Ducha fría", "Meditar"}
Workers == 1..MaxWorkers

MinPasswordLen == 6
JWT_EXPIRATION_DAYS == 7
SECRET_KEY == "nexotime-dev-secret-change-me"

VARIABLES
    users,       \* table users: sequence of rows, id = position (autoincrement)
    habits,      \* table habits: sequence of rows, id = position
    habit_logs,  \* table habit_logs: sequence of rows, id = position
    req,         \* per thread-pool worker: the request in flight, or Idle
    last,        \* the response of the request that completed last
    codes,       \* history: per link code, what became of its last issuance
    nreq,        \* number of requests accepted so far
    now,         \* the wall clock (datetime.now), in days since start-up
    issued,      \* history: the credentials handed out, with account and endpoint
    routines     \* table routines: the rows in rowid order

vars == <<users, habits, habit_logs, req, last, codes, nreq, now, issued, routines>>

Idle == [op |-> "idle"]
\* History of a link code: state is "never", "pending" (returned by issueCode and
\* neither redeemed nor replaced since), "redeemed" or "superseded"; owner is the
\* account it was issued to; by is the set of Telegram ids that redeemed it.
NeverIssued == [state |-> "never", owner |-> 0, by |-> {}]
NoResponse == [op |-> "none", status |-> 0]

UserIds == DOMAIN users
HabitIds == DOMAIN habits
LogIds == DOMAIN habit_logs

IsIdle(w) == req[w] = Idle
\* A new request is served by the lowest free thread (threads are interchangeable).
FreeWorker(w) == IsIdle(w) /\ \A v \in Workers : v < w => ~IsIdle(v)
\* The thread pool hands an incoming request to worker w.
Accept(w) == FreeWorker(w) /\ nreq < MaxRequests /\ nreq' = nreq + 1

\* ------------------------------------------------------------- PasswordVault
\* pwd_context.hash / pwd_context.verify: a digest that only the same
\* plaintext verifies against (the salt plays no part in any claim).
pwd_hash(plain) == <<"bcrypt", plain>>
pwd_verify(plain, digest) == digest = pwd_hash(plain)

\* --------------------------------------------------------------- TokenIssuer
\* str(user_id) and int(payload["sub"]) over the ids the users table can hold
\* (and one more): position n of Decimal is the decimal string of n.
Decimal == <<"1", "2", "3">>
str(n) == Decimal[n]
\* int(s) raises ValueError unless s is a decimal string.
IsDecimal(s) == \E n \in DOMAIN Decimal : Decimal[n] = s
int(s) == CHOOSE n \in DOMAIN Decimal : Decimal[n] = s

\* jwt.encode(payload, key, "HS256"): the payload with an HMAC over it that
\* only the same key and the same payload reproduce.
jwt_sign(payload, key) == <<"HS256", key, payload>>
jwt_encode(payload, key) == [payload |-> payload, sig |-> jwt_sign(payload, key)]

\* A create_token that names the wrong account.
create_token_wrong_sub(user_id) ==
    jwt_encode([sub |-> str(user_id + 1), exp |-> now + JWT_EXPIRATION_DAYS], SECRET_KEY)

\* create_token (lines 107-113).
create_token(user_id) ==
    jwt_encode([sub |-> str(user_id), exp |-> now + JWT_EXPIRATION_DAYS], SECRET_KEY)

\* A jwt.decode called with verify_signature off.
jwt_decode_unverified(token) ==
    IF token.payload.exp <= now
    THEN [ok |-> FALSE, error |-> "ExpiredSignatureError"]
    ELSE [ok |-> TRUE, payload |-> token.payload]

\* jwt.decode(token, SECRET_KEY, algorithms=["HS256"]) (line 127): the
\* signature is verified first, then the exp claim against the clock.
jwt_decode(token) ==
    IF token.sig # jwt_sign(token.payload, SECRET_KEY)
    THEN [ok |-> FALSE, error |-> "InvalidSignatureError"]
    ELSE IF token.payload.exp <= now
    THEN [ok |-> FALSE, error |-> "ExpiredSignatureError"]
    ELSE [ok |-> TRUE, payload |-> token.payload]

\* The 401 of lines 130-133.
InvalidToken ==
    [status |-> 401, detail |-> "Token inválido o expirado. Haz login de nuevo.", user |-> 0]

\* get_current_user (lines 116-138): the account a bearer credential resolves
\* to.  A payload without "sub" is the KeyError, a non-decimal one the
\* ValueError; an id that matches no row is answered 404.
get_current_user(token) ==
    LET decoded == jwt_decode(token) IN
    IF ~decoded.ok THEN InvalidToken
    ELSE IF "sub" \notin DOMAIN decoded.payload THEN InvalidToken
    ELSE IF ~IsDecimal(decoded.payload.sub) THEN InvalidToken
    ELSE IF int(decoded.payload.sub) \notin DOMAIN users
    THEN [status |-> 404, detail |-> "Usuario no encontrado", user |-> 0]
    ELSE [status |-> 200, detail |-> "", user |-> int(decoded.payload.sub)]

\* ------------------------------------------------------------ table queries
\* db.query(User).filter(User.email == e).first()
UserByEmail(e) == {u \in UserIds : users[u].email = e}
\* db.query(User).filter(User.telegram_link_code == c).first(); NULL never
\* equals a string in SQL, and a code is a required str parameter.
UserByLinkCode(c) == {u \in UserIds : users[u].telegram_link_code = c}
\* db.query(User).filter(User.telegram_id == t).first()
UserByTelegram(t) == {u \in UserIds : users[u].telegram_id = t}

\* A users table declared without unique=True on telegram_id.
TelegramIdNotUnique(u, t) == FALSE

\* UNIQUE(users.telegram_id): would giving row u the value t break it?
TelegramIdTaken(u, t) == \E v \in UserIds : v # u /\ users[v].telegram_id = t
\* A users table declared without unique=True on telegram_link_code.
LinkCodeNotUnique(u, c) == FALSE

\* UNIQUE(users.telegram_link_code)
LinkCodeTaken(u, c) == \E v \in UserIds : v # u /\ users[v].telegram_link_code = c
\* UNIQUE(users.email)
EmailTaken(e) == \E v \in UserIds : users[v].email = e

Init ==
    /\ users = <<>>
    /\ habits = <<>>
    /\ habit_logs = <<>>
    /\ req = [w \in Workers |-> Idle]
    /\ last = NoResponse
    /\ codes = [c \in Codes |-> NeverIssued]
    /\ nreq = 0
    /\ now = 0
    /\ issued = {}
    /\ routines = <<>>

\* ------------------------------------------------------------------ register
\* A register that accepts any password.
password_never_too_short(p) == FALSE

\* len(data.password) < 6 (line 164)
password_too_short(p) == Len(p) < MinPasswordLen

\* POST /auth/register, the two checks (lines 159-165).
register_read(w, e, p) ==
    /\ Accept(w)
    /\ IF UserByEmail(e) # {}
       THEN /\ last' = [op |-> "register", status |-> 400, email |-> e,
                        detail |-> "Ese email ya está registrado"]
            /\ UNCHANGED req
       ELSE IF password_too_short(p)
       THEN /\ last' = [op |-> "register", status |-> 400, email |-> e,
                        detail |-> "La contraseña debe tener al menos 6 caracteres"]
            /\ UNCHANGED req
       ELSE /\ req' = [req EXCEPT ![w] = [op |-> "register", email |-> e, password |-> p]]
            /\ UNCHANGED last
    /\ UNCHANGED <<users, habits, habit_logs, codes>>
    /\ UNCHANGED <<now, issued, routines>>

\* db.add(user); db.commit() (lines 168-181): the INSERT fails on UNIQUE(email),
\* an IntegrityError nothing catches (500); otherwise the response carries a
\* credential for the new row.
register_commit(w) ==
    /\ req[w].op = "register"
    /\ req' = [req EXCEPT ![w] = Idle]
    /\ UNCHANGED nreq
    /\ IF EmailTaken(req[w].email)
       THEN /\ last' = [op |-> "register", status |-> 500, email |-> req[w].email,
                        detail |-> "IntegrityError"]
            /\ UNCHANGED <<users, issued>>
       ELSE /\ users' = Append(users, [email |-> req[w].email,
                                       password_hash |-> pwd_hash(req[w].password),
                                       telegram_id |-> Null,
                                       telegram_link_code |-> Null])
            /\ last' = [op |-> "register", status |-> 200, email |-> req[w].email,
                        user |-> Len(users) + 1, token |-> create_token(Len(users) + 1)]
            /\ issued' = issued \cup {[token |-> create_token(Len(users) + 1),
                                        user |-> Len(users) + 1, via |-> "register"]}
    /\ UNCHANGED <<habits, habit_logs, codes, now, routines>>

\* ------------------------------------------------------- LinkCodeBroker
\* _get_user_by_telegram (lines 424-429): the account bound to t, or 404.
get_user_by_telegram(t) ==
    IF UserByTelegram(t) = {}
    THEN [status |-> 404, user |-> 0]
    ELSE [status |-> 200, user |-> CHOOSE u \in UserByTelegram(t) : TRUE]

\* GET /telegram/user/{telegram_id} (lines 432-436): a single SELECT.
get_telegram_user(w, t) ==
    /\ Accept(w)
    /\ last' = [op |-> "telegram_user", tid |-> t,
                status |-> get_user_by_telegram(t).status,
                user |-> get_user_by_telegram(t).user]
    /\ UNCHANGED <<users, habits, habit_logs, req, codes>>
    /\ UNCHANGED <<now, issued, routines>>

\* A generate-code that keeps a code that is still pending.
SetLinkCodeIfNone(u, c) ==
    IF users[u].telegram_link_code = Null
    THEN [users EXCEPT ![u].telegram_link_code = c]
    ELSE users

\* A generate-code that also drops the account's Telegram binding.
SetLinkCodeAndUnlink(u, c) ==
    [users EXCEPT ![u].telegram_link_code = c, ![u].telegram_id = Null]

\* The row after `user.telegram_link_code = code` (line 397) is flushed.
SetLinkCode(u, c) == [users EXCEPT ![u].telegram_link_code = c]

\* A link that forgets line 413 and leaves the code in place.
BindTelegramKeepCode(u, t, loaded_tid) ==
    [users EXCEPT ![u].telegram_id = IF t = loaded_tid THEN @ ELSE t]

\* A link that forgets line 412 and only clears the code.
BindTelegramCodeOnly(u, t, loaded_tid) ==
    [users EXCEPT ![u].telegram_link_code = Null]

\* A link that binds only an account that has no Telegram id yet.
BindTelegramIfUnbound(u, t, loaded_tid) ==
    [users EXCEPT ![u].telegram_id = IF loaded_tid = Null THEN t ELSE @,
                  ![u].telegram_link_code = Null]

\* The row after lines 412-413 are flushed.  The UPDATE carries only the
\* attributes whose value differs from the one the session loaded, so the
\* telegram_id column is written only when t is not the loaded value.
BindTelegram(u, t, loaded_tid) ==
    [users EXCEPT ![u].telegram_id = IF t = loaded_tid THEN @ ELSE t,
                  ![u].telegram_link_code = Null]

\* History: code c was returned to account u by issueCode.
CodeIssued(u, c) ==
    [d \in Codes |->
        IF d = c THEN [state |-> "pending", owner |-> u, by |-> {}]
        ELSE IF codes[d].owner = u /\ codes[d].state = "pending"
        THEN [codes[d] EXCEPT !.state = "superseded"]
        ELSE codes[d]]

\* History: a redeemCode(t, c) succeeded.
CodeRedeemed(c, t) ==
    [codes EXCEPT ![c].state = "redeemed", ![c].by = @ \cup {t}]

\* POST /telegram/generate-code, get_current_user (lines 116-138, 391): the
\* caller's bearer credential resolves to account u, whose row is loaded.
generate_telegram_link_code_read(w, u) ==
    /\ Accept(w)
    /\ u \in UserIds
    /\ req' = [req EXCEPT ![w] = [op |-> "generate_code", user |-> u,
                                  loaded_code |-> users[u].telegram_link_code]]
    /\ UNCHANGED <<users, habits, habit_logs, last, codes>>
    /\ UNCHANGED <<now, issued, routines>>

\* Lines 396-399: c is the code secrets.choice draws.  A code equal to the
\* loaded one leaves the row clean (no UPDATE); otherwise the UPDATE fails on
\* UNIQUE(telegram_link_code) when another account holds c.
generate_telegram_link_code_commit(w, c) ==
    /\ req[w].op = "generate_code"
    /\ req' = [req EXCEPT ![w] = Idle]
    /\ UNCHANGED nreq
    /\ LET u == req[w].user IN
       IF c # req[w].loaded_code /\ LinkCodeTaken(u, c)
       THEN /\ last' = [op |-> "generate_code", status |-> 500, user |-> u, code |-> c]
            /\ UNCHANGED <<users, codes>>
       ELSE /\ users' = IF c = req[w].loaded_code THEN users ELSE SetLinkCode(u, c)
            /\ last' = [op |-> "generate_code", status |-> 200, user |-> u, code |-> c]
            /\ codes' = CodeIssued(u, c)
    /\ UNCHANGED <<habits, habit_logs>>
    /\ UNCHANGED <<now, issued, routines>>

\* POST /telegram/link, the lookup (lines 408-410).
link_telegram_read(w, t, c) ==
    /\ Accept(w)
    /\ IF UserByLinkCode(c) = {}
       THEN /\ last' = [op |-> "link", status |-> 404, tid |-> t, code |-> c, user |-> 0]
            /\ UNCHANGED req
       ELSE LET u == CHOOSE v \in UserByLinkCode(c) : TRUE IN
            /\ req' = [req EXCEPT ![w] = [op |-> "link", tid |-> t, code |-> c, user |-> u,
                                          loaded_tid |-> users[u].telegram_id]]
            /\ UNCHANGED last
    /\ UNCHANGED <<users, habits, habit_logs, codes>>
    /\ UNCHANGED <<now, issued, routines>>

\* Lines 412-415: the UPDATE fails on UNIQUE(telegram_id) when another account
\* is bound to t; the IntegrityError is not caught (500) and nothing is written.
link_telegram_commit(w) ==
    /\ req[w].op = "link"
    /\ req' = [req EXCEPT ![w] = Idle]
    /\ UNCHANGED nreq
    /\ LET u == req[w].user
           t == req[w].tid
       IN
       IF t # req[w].loaded_tid /\ TelegramIdTaken(u, t)
       THEN /\ last' = [op |-> "link", status |-> 500, tid |-> t, code |-> req[w].code, user |-> u]
            /\ UNCHANGED <<users, codes>>
       ELSE /\ users' = BindTelegram(u, t, req[w].loaded_tid)
            /\ last' = [op |-> "link", status |-> 200, tid |-> t, code |-> req[w].code, user |-> u]
            /\ codes' = CodeRedeemed(req[w].code, t)
    /\ UNCHANGED <<habits, habit_logs>>
    /\ UNCHANGED <<now, issued, routines>>

\* ------------------------------------------------------------------- login
\* A login that tells an unknown email from a wrong password.
login_failure_leaky(e, known) ==
    [op |-> "login", status |-> IF known THEN 401 ELSE 404, email |-> e, user |-> 0,
     detail |-> IF known THEN "Contraseña incorrecta" ELSE "Email no registrado"]

\* The HTTPException of line 193, raised whichever operand of `or` was true;
\* email is the request, kept for reference.
login_failure(e, known) ==
    [op |-> "login", status |-> 401, email |-> e, user |-> 0,
     detail |-> "Email o contraseña incorrectos"]

\* POST /auth/login (lines 184-198): one SELECT and the password check.
login(w, e, p) ==
    /\ Accept(w)
    /\ LET found == UserByEmail(e)
           u == IF found = {} THEN 0 ELSE CHOOSE v \in found : TRUE
       IN
       IF u = 0 \/ ~pwd_verify(p, users[u].password_hash)
       THEN /\ last' = login_failure(e, u # 0)
            /\ UNCHANGED issued
       ELSE /\ last' = [op |-> "login", status |-> 200, email |-> e, user |-> u,
                        token |-> create_token(u)]
            /\ issued' = issued \cup {[token |-> create_token(u), user |-> u,
                                        via |-> "login"]}
    /\ UNCHANGED <<users, habits, habit_logs, req, codes, now, routines>>

\* GET /auth/me (lines 201-204): get_current_user on the presented credential,
\* a single SELECT.
get_me(w, token) ==
    /\ Accept(w)
    /\ last' = [op |-> "me", token |-> token,
                status |-> get_current_user(token).status,
                detail |-> get_current_user(token).detail,
                user |-> get_current_user(token).user]
    /\ UNCHANGED <<users, habits, habit_logs, req, codes, now, issued, routines>>

\* Time passes.
Tick ==
    /\ now < MaxNow
    /\ now' = now + 1
    /\ UNCHANGED <<users, habits, habit_logs, req, last, codes, nreq, issued, routines>>

\* ------------------------------------------------------------------ habits
\* POST /habits (lines 217-224) for the account u the credential resolves to:
\* the INSERT depends on nothing the handler read.
create_habit(w, u) ==
    /\ Accept(w)
    /\ u \in UserIds
    /\ Len(habits) < MaxHabits
    /\ habits' = Append(habits, [user_id |-> u, active |-> TRUE])
    /\ last' = [op |-> "create_habit", status |-> 200]
    /\ UNCHANGED <<users, habit_logs, req, codes>>
    /\ UNCHANGED <<now, issued, routines>>

\* A habit lookup that leaves out the owner filter.
HabitOfAnyone(u, h) == h \in HabitIds

\* A habit lookup that also filters on Habit.active == True.
HabitOfActive(u, h) == h \in HabitIds /\ habits[h].user_id = u /\ habits[h].active

\* db.query(Habit).filter(Habit.id == h, Habit.user_id == u).first()
HabitOf(u, h) == h \in HabitIds /\ habits[h].user_id = u

\* A delete that removes the habit row (db.delete(habit)) instead.
RemoveHabit(h) ==
    [i \in 1..(Len(habits) - 1) |-> IF i < h THEN habits[i] ELSE habits[i + 1]]

\* The habits table after `habit.active = False` (line 233) is flushed.
SoftDelete(h) == [habits EXCEPT ![h].active = FALSE]

\* DELETE /habits/{habit_id} (lines 227-235).  A habit row is never removed
\* and never changes owner, and the only write is active = False, so the
\* lookup and the commit have the same effect at any distance.
delete_habit(w, u, h) ==
    /\ Accept(w)
    /\ u \in UserIds
    /\ IF ~HabitOf(u, h)
       THEN /\ last' = [op |-> "delete_habit", status |-> 404]
            /\ UNCHANGED habits
       ELSE /\ habits' = SoftDelete(h)
            /\ last' = [op |-> "delete_habit", status |-> 200]
    /\ UNCHANGED <<users, habit_logs, req, codes>>
    /\ UNCHANGED <<now, issued, routines>>

\* --------------------------------------------------------- CompletionLedger
\* The rows of habit_logs for (user, habit, date).
LogsFor(u, h, d) ==
    {l \in LogIds : /\ habit_logs[l].user_id = u
                    /\ habit_logs[l].habit_id = h
                    /\ habit_logs[l].date = d}

Min(S) == CHOOSE x \in S : \A y \in S : x <= y

\* db.query(HabitLog).filter(...).first() (lines 333-337, 469-473): the row
\* with the lowest id, or 0 for None.
ExistingLog(u, h, d) == IF LogsFor(u, h, d) = {} THEN 0 ELSE Min(LogsFor(u, h, d))

\* Requests in flight that may still INSERT a row.
PendingInserts ==
    Cardinality({v \in Workers : \/ req[v].op = "telegram_log"
                                 \/ (req[v].op = "log" /\ req[v].existing = 0)})

\* An upsert that never looks at the existing row and always INSERTs.
InsertLog(e, u, h, d, b, loaded) ==
    Append(habit_logs, [user_id |-> u, habit_id |-> h, date |-> d, completed |-> b])

\* The upsert as flushed by db.commit(): `existing.completed = b` (lines 341,
\* 476) is an UPDATE of row e when b differs from the loaded value; with no
\* existing row, db.add(HabitLog(...)) (lines 347-348, 478-479) is an INSERT.
UpsertLog(e, u, h, d, b, loaded) ==
    IF e # 0
    THEN [habit_logs EXCEPT ![e].completed = IF b = loaded THEN @ ELSE b]
    ELSE Append(habit_logs, [user_id |-> u, habit_id |-> h, date |-> d, completed |-> b])

\* What the handler keeps of its reads until the commit.
LogRequest(surface, u, h, d, b) ==
    LET e == ExistingLog(u, h, d) IN
    [op |-> "log", surface |-> surface, user |-> u, habit |-> h, date |-> d,
     completed |-> b, existing |-> e,
     loaded |-> IF e = 0 THEN FALSE ELSE habit_logs[e].completed]

\* What is kept of a log response: the surface, the status, and whether the
\* call overwrote a record that carried the other flag.
LogResponse(surface, status, changed) ==
    [op |-> "log", surface |-> surface, status |-> status, changed |-> changed,
     detail |-> IF status = 404 THEN "Hábito no encontrado" ELSE "ok"]

\* POST /logs, the reads (lines 116-138, 327-337) for the account u the
\* credential resolves to.  The habit lookup and the log lookup are taken
\* together: a habit row, once there, never stops matching.
log_habit_read(w, u, h, d, b) ==
    /\ Accept(w)
    /\ u \in UserIds
    /\ IF ~HabitOf(u, h)
       THEN /\ last' = LogResponse("bearer", 404, FALSE)
            /\ UNCHANGED req
       ELSE /\ ExistingLog(u, h, d) = 0 => Len(habit_logs) + PendingInserts < MaxLogs
            /\ req' = [req EXCEPT ![w] = LogRequest("bearer", u, h, d, b)]
            /\ UNCHANGED last
    /\ UNCHANGED <<users, habits, habit_logs, codes>>
    /\ UNCHANGED <<now, issued, routines>>

\* Lines 339-351.
log_habit_commit(w) ==
    /\ req[w].op = "log" /\ req[w].surface = "bearer"
    /\ req' = [req EXCEPT ![w] = Idle]
    /\ UNCHANGED nreq
    /\ LET r == req[w] IN
       /\ habit_logs' = UpsertLog(r.existing, r.user, r.habit, r.date, r.completed, r.loaded)
       /\ last' = LogResponse(r.surface, 200, r.existing # 0 /\ r.completed # r.loaded)
    /\ UNCHANGED <<users, habits, codes>>
    /\ UNCHANGED <<now, issued, routines>>

\* POST /telegram/log-habit/{telegram_id}, line 461: the account bound to t.
telegram_log_habit_resolve(w, t, h, d, b) ==
    /\ Accept(w)
    /\ IF get_user_by_telegram(t).status = 404
       THEN /\ last' = [LogResponse("telegram", 404, FALSE)
                           EXCEPT !.detail = "Cuenta no vinculada"]
            /\ UNCHANGED req
       ELSE /\ Len(habit_logs) + PendingInserts < MaxLogs
            /\ req' = [req EXCEPT ![w] = [op |-> "telegram_log",
                                          user |-> get_user_by_telegram(t).user,
                                          habit |-> h, date |-> d, completed |-> b]]
            /\ UNCHANGED last
    /\ UNCHANGED <<users, habits, habit_logs, codes>>
    /\ UNCHANGED <<now, issued, routines>>

\* Lines 463-473: the habit lookup and the log lookup under that account.
telegram_log_habit_read(w) ==
    /\ req[w].op = "telegram_log"
    /\ UNCHANGED nreq
    /\ LET r == req[w] IN
       IF ~HabitOf(r.user, r.habit)
       THEN /\ last' = LogResponse("telegram", 404, FALSE)
            /\ req' = [req EXCEPT ![w] = Idle]
       ELSE /\ req' = [req EXCEPT ![w] =
                          LogRequest("telegram", r.user, r.habit, r.date, r.completed)]
            /\ UNCHANGED last
    /\ UNCHANGED <<users, habits, habit_logs, codes>>
    /\ UNCHANGED <<now, issued, routines>>

\* Lines 475-482.
telegram_log_habit_commit(w) ==
    /\ req[w].op = "log" /\ req[w].surface = "telegram"
    /\ req' = [req EXCEPT ![w] = Idle]
    /\ UNCHANGED nreq
    /\ LET r == req[w] IN
       /\ habit_logs' = UpsertLog(r.existing, r.user, r.habit, r.date, r.completed, r.loaded)
       /\ last' = LogResponse(r.surface, 200, r.existing # 0 /\ r.completed # r.loaded)
    /\ UNCHANGED <<users, habits, codes>>
    /\ UNCHANGED <<now, issued, routines>>

\* ------------------------------------------------------------- day summary
\* db.query(Habit).filter(Habit.user_id == u, Habit.active == True).all()
\* (lines 214, 357, 443, 503)
ActiveHabits(u) == {h \in HabitIds : habits[h].user_id = u /\ habits[h].active}

\* db.query(HabitLog).filter(HabitLog.user_id == u, HabitLog.date == d).all()
\* (lines 358-361, 504-507)
DayLogs(u, d) == {l \in LogIds : habit_logs[l].user_id = u /\ habit_logs[l].date = d}

Max(S) == CHOOSE x \in S : \A y \in S : y <= x

\* The nearest integer to n / d, a tie going to the even one.
RoundHalfEven(n, d) ==
    LET q == n \div d
        r == n % d
    IN IF 2 * r < d THEN q
       ELSE IF 2 * r > d THEN q + 1
       ELSE IF q % 2 = 0 THEN q ELSE q + 1

\* round((completed / total * 100) if total > 0 else 0, 1) (lines 370, 522),
\* in tenths of a percent: 667 is 66.7.  No tie arises below total = 16.
percentage(completed, total) ==
    IF total > 0 THEN RoundHalfEven(1000 * completed, total) ELSE 0

\* The DaySummary of lines 363-372, from the active habits the handler loaded
\* and the logs it reads now: completed counts every log row of the day, and
\* habits is the list of those rows.
DaySummary(u, d, active) ==
    LET logs == DayLogs(u, d)
        completed == Cardinality({l \in logs : habit_logs[l].completed})
        total == Cardinality(active)
    IN [op |-> "day_summary", status |-> 200, date |-> d,
        total_habits |-> total, completed |-> completed,
        percentage |-> percentage(completed, total),
        habits |-> [l \in logs |-> [id |-> l, habit_id |-> habit_logs[l].habit_id,
                                    completed |-> habit_logs[l].completed]]]

\* logs_map.get(h, False) with logs_map = {l.habit_id: l.completed for l in
\* logs} (lines 509-514): the flag of the last row of habit h, or False.
logs_map_get(logs, h) ==
    LET rows == {l \in logs : habit_logs[l].habit_id = h}
    IN IF rows = {} THEN FALSE ELSE habit_logs[Max(rows)].completed

\* The answer of lines 509-524: completed counts the active habits whose
\* flag is set, and habits_detail has one entry per active habit (a habit's
\* name stands for the habit, here its id).
TelegramSummary(u, d, active) ==
    LET logs == DayLogs(u, d)
        total == Cardinality(active)
        completed == Cardinality({h \in active : logs_map_get(logs, h)})
    IN [op |-> "telegram_summary", status |-> 200, date |-> d,
        total_habits |-> total, completed |-> completed,
        percentage |-> percentage(completed, total),
        habits_detail |-> [h \in active |-> [name |-> h,
                                             completed |-> logs_map_get(logs, h)]]]

\* GET /logs/{log_date}, the first SELECT (line 357) for the account u the
\* credential resolves to.
get_day_summary_habits(w, u, d) ==
    /\ Accept(w)
    /\ u \in UserIds
    /\ req' = [req EXCEPT ![w] = [op |-> "day_summary", user |-> u, date |-> d,
                                  habits |-> ActiveHabits(u)]]
    /\ UNCHANGED <<users, habits, habit_logs, last, codes, now, issued, routines>>

\* Lines 358-372: the second SELECT and the response.
get_day_summary_logs(w) ==
    /\ req[w].op = "day_summary"
    /\ last' = DaySummary(req[w].user, req[w].date, req[w].habits)
    /\ req' = [req EXCEPT ![w] = Idle]
    /\ UNCHANGED <<users, habits, habit_logs, codes, nreq, now, issued, routines>>

\* GET /telegram/summary/{telegram_id}/{log_date}, line 501.
get_telegram_summary_resolve(w, t, d) ==
    /\ Accept(w)
    /\ IF get_user_by_telegram(t).status = 404
       THEN /\ last' = [op |-> "telegram_summary", status |-> 404,
                        detail |-> "Cuenta no vinculada"]
            /\ UNCHANGED req
       ELSE /\ req' = [req EXCEPT ![w] = [op |-> "telegram_summary_user",
                                          user |-> get_user_by_telegram(t).user,
                                          date |-> d]]
            /\ UNCHANGED last
    /\ UNCHANGED <<users, habits, habit_logs, codes, now, issued, routines>>

\* Line 503: the active habits of that account.
get_telegram_summary_habits(w) ==
    /\ req[w].op = "telegram_summary_user"
    /\ req' = [req EXCEPT ![w] = [op |-> "telegram_summary", user |-> req[w].user,
                                  date |-> req[w].date,
                                  habits |-> ActiveHabits(req[w].user)]]
    /\ UNCHANGED <<users, habits, habit_logs, last, codes, nreq, now, issued, routines>>

\* Lines 504-524: the logs of the day and the response.
get_telegram_summary_logs(w) ==
    /\ req[w].op = "telegram_summary"
    /\ last' = TelegramSummary(req[w].user, req[w].date, req[w].habits)
    /\ req' = [req EXCEPT ![w] = Idle]
    /\ UNCHANGED <<users, habits, habit_logs, codes, nreq, now, issued, routines>>

\* ------------------------------------------------------------ week summary
\* The days a week summary ending on one of Dates can reach, in calendar
\* order; a date's position stands for date.toordinal().
Calendar ==
    << "2025-02-13", "2025-02-14", "2025-02-15", "2025-02-16",
       "2025-02-17", "2025-02-18", "2025-02-19", "2025-02-20" >>

Ordinal(d) == CHOOSE k \in DOMAIN Calendar : Calendar[k] = d

\* range(7) (line 379)
WeekDays == 7

\* A week that starts six days back and runs forward.
week_day_forward(log_date, i) == Calendar[Ordinal(log_date) - (WeekDays - 1) + i]

\* log_date - timedelta(days=i) (line 380)
week_day(log_date, i) == Calendar[Ordinal(log_date) - i]

\* GET /logs/week/{log_date} (lines 375-383), get_current_user for the account
\* u the credential resolves to; the loop starts with i = 0 and no summaries.
get_week_summary(w, u, d) ==
    /\ Accept(w)
    /\ u \in UserIds
    /\ req' = [req EXCEPT ![w] = [op |-> "week_summary", user |-> u, log_date |-> d,
                                  i |-> 0, summaries |-> <<>>]]
    /\ UNCHANGED <<users, habits, habit_logs, last, codes, now, issued, routines>>

\* Iteration i, the first SELECT of get_day_summary (line 357).
get_week_summary_habits(w) ==
    /\ req[w].op = "week_summary"
    /\ req' = [req EXCEPT ![w] = [op |-> "week_summary_day", user |-> req[w].user,
                                  log_date |-> req[w].log_date, i |-> req[w].i,
                                  summaries |-> req[w].summaries,
                                  habits |-> ActiveHabits(req[w].user)]]
    /\ UNCHANGED <<users, habits, habit_logs, last, codes, nreq, now, issued, routines>>

\* Iteration i, the second SELECT of get_day_summary and summaries.append
\* (lines 358-372, 382); after the seventh day the list is returned.
get_week_summary_logs(w) ==
    /\ req[w].op = "week_summary_day"
    /\ LET r == req[w]
           summary == DaySummary(r.user, week_day(r.log_date, r.i), r.habits)
           summaries == Append(r.summaries, summary)
       IN IF r.i + 1 < WeekDays
          THEN /\ req' = [req EXCEPT ![w] = [op |-> "week_summary", user |-> r.user,
                                             log_date |-> r.log_date, i |-> r.i + 1,
                                             summaries |-> summaries]]
               /\ UNCHANGED last
          ELSE /\ req' = [req EXCEPT ![w] = Idle]
               /\ last' = [op |-> "week_summary", status |-> 200, summaries |-> summaries]
    /\ UNCHANGED <<users, habits, habit_logs, codes, nreq, now, issued, routines>>

\* ------------------------------------------------------------------ routines
\* Routine.user_id == u, Routine.type == ty with the owner filter left out.
RoutineMatchAnyOwner(u, ty, r) == r.type = ty

\* .filter(Routine.user_id == user.id, Routine.type == routine_type)
\* (lines 249, 274, 491)
RoutineMatch(u, ty, r) == r.user_id = u /\ r.type = ty

\* The rows of routines the filter selects, and the rows it leaves.
RoutineRows(u, ty) ==
    LET Selected(r) == RoutineMatch(u, ty, r) IN SelectSeq(routines, Selected)

OtherRows(u, ty) ==
    LET Left(r) == ~RoutineMatch(u, ty, r) IN SelectSeq(routines, Left)

\* A list of steps as a response carries it: .order_by(Routine.step_order)
\* fixes the order of the entries up to ties, which SQL leaves open, so the
\* list is kept as the bag of its (step_order, description) entries.
Steps(rows) ==
    LET entry(i) == <<rows[i].step_order, rows[i].description>>
    IN [e \in {entry(i) : i \in DOMAIN rows} |->
           Cardinality({i \in DOMAIN rows : entry(i) = e})]

\* for i, s in enumerate(steps, 1): Routine(user_id, type, step_order=i,
\* description=s.description) (lines 278-281)
NewSteps(u, ty, steps) ==
    [i \in 1..Len(steps) |->
        [user_id |-> u, type |-> ty, step_order |-> i, description |-> steps[i]]]

\* The bodies PUT /routines/bulk may carry (the descriptions of the steps).
StepLists ==
    {<<>>, <<"Meditar">>, <<"Ducha fría", "Meditar">>, <<"Meditar", "Ducha fría">>}

\* The step_order a POST /routines may carry.
StepOrders == {1, 2}

\* The 400 of lines 246, 259 and 271.
InvalidType(op) ==
    [op |-> op, status |-> 400, detail |-> "Tipo debe ser 'morning' o 'night'"]

\* A replace_routine has run its DELETE and not committed yet: its connection
\* holds SQLite's write lock, and any other connection that wants to write
\* waits for the commit.  (Of the handlers modelled, those on routines are
\* the ones that run next to a replace_routine.)
WriteLocked == \E v \in Workers : req[v].op = "replace_routine"

\* POST /routines (lines 255-264) for the account u the credential resolves
\* to: the INSERT depends on nothing the handler read.
create_routine_step(w, u, ty, order, description) ==
    /\ Accept(w)
    /\ u \in UserIds
    /\ IF ty \notin RoutineTypes
       THEN /\ last' = InvalidType("create_routine_step")
            /\ UNCHANGED routines
       ELSE /\ ~WriteLocked
            /\ Len(routines) < MaxRoutineRows
            /\ routines' = Append(routines, [user_id |-> u, type |-> ty,
                                             step_order |-> order,
                                             description |-> description])
            /\ last' = [op |-> "create_routine_step", status |-> 200, user |-> u,
                        type |-> ty, step_order |-> order, description |-> description]
    /\ UNCHANGED <<users, habits, habit_logs, req, codes, now, issued>>

\* A bulk DELETE on a connection in autocommit mode: gone for every reader at
\* once.
DeleteAutocommit(u, ty) == OtherRows(u, ty)

\* The routines table as other connections see it after the DELETE of line
\* 274: pysqlite opened a transaction before the DELETE, so until db.commit()
\* the rows are gone only for the handler's own connection.
DeleteInTransaction(u, ty) == routines

\* PUT /routines/bulk/{routine_type}, lines 270-281, for the account u the
\* credential resolves to: the type check, the DELETE and the db.add of the
\* new steps.  old is history: the steps the routine had before.
replace_routine_delete(w, u, ty, steps) ==
    /\ Accept(w)
    /\ u \in UserIds
    /\ IF ty \notin RoutineTypes
       THEN /\ last' = InvalidType("replace_routine")
            /\ UNCHANGED <<req, routines>>
       ELSE /\ ~WriteLocked
            /\ Len(OtherRows(u, ty)) + Len(steps) <= MaxRoutineRows
            /\ req' = [req EXCEPT ![w] = [op |-> "replace_routine", user |-> u,
                                          type |-> ty, steps |-> steps,
                                          old |-> Steps(RoutineRows(u, ty))]]
            /\ routines' = DeleteInTransaction(u, ty)
            /\ UNCHANGED last
    /\ UNCHANGED <<users, habits, habit_logs, codes, now, issued>>

\* Lines 283-286: db.commit() flushes the INSERTs and commits them together
\* with the DELETE.
replace_routine_commit(w) ==
    /\ req[w].op = "replace_routine"
    /\ LET r == req[w] IN
       /\ routines' = OtherRows(r.user, r.type) \o NewSteps(r.user, r.type, r.steps)
       /\ last' = [op |-> "replace_routine", status |-> 200, user |-> r.user,
                   type |-> r.type, steps |-> Steps(NewSteps(r.user, r.type, r.steps))]
    /\ req' = [req EXCEPT ![w] = Idle]
    /\ UNCHANGED <<users, habits, habit_logs, codes, nreq, now, issued>>

\* GET /routines/{routine_type} (lines 242-252) for the account u the
\* credential resolves to.
list_routine(w, u, ty) ==
    /\ Accept(w)
    /\ u \in UserIds
    /\ last' = IF ty \notin RoutineTypes
               THEN InvalidType("list_routine")
               ELSE [op |-> "list_routine", status |-> 200, user |-> u, type |-> ty,
                     steps |-> Steps(RoutineRows(u, ty))]
    /\ UNCHANGED <<users, habits, habit_logs, req, codes, now, issued, routines>>

\* GET /telegram/routine/{telegram_id}/{routine_type}, line 488.
get_telegram_routine_resolve(w, t, ty) ==
    /\ Accept(w)
    /\ IF get_user_by_telegram(t).status = 404
       THEN /\ last' = [op |-> "telegram_routine", status |-> 404,
                        detail |-> "Cuenta no vinculada"]
            /\ UNCHANGED req
       ELSE /\ req' = [req EXCEPT ![w] = [op |-> "telegram_routine",
                                          user |-> get_user_by_telegram(t).user,
                                          type |-> ty]]
            /\ UNCHANGED last
    /\ UNCHANGED <<users, habits, habit_logs, codes, now, issued, routines>>

\* Lines 489-495: the steps of that account for routine_type, whatever the
\* string is.
get_telegram_routine_steps(w) ==
    /\ req[w].op = "telegram_routine"
    /\ last' = [op |-> "telegram_routine", status |-> 200, user |-> req[w].user,
                type |-> req[w].type,
                steps |-> Steps(RoutineRows(req[w].user, req[w].type))]
    /\ req' = [req EXCEPT ![w] = Idle]
    /\ UNCHANGED <<users, habits, habit_logs, codes, nreq, now, issued, routines>>

\* ------------------------------------------------------------ specifications
\* No request is in flight: the next one runs alone.
Serial == \A w \in Workers : IsIdle(w)

\* The linking protocol under every interleaving of its requests.
NextLink ==
    \/ \E w \in Workers, e \in Emails, p \in Passwords : register_read(w, e, p)
    \/ \E w \in Workers : register_commit(w)
    \/ \E w \in Workers, u \in UserIds : generate_telegram_link_code_read(w, u)
    \/ \E w \in Workers, c \in Codes : generate_telegram_link_code_commit(w, c)
    \/ \E w \in Workers, t \in TelegramIds, c \in Codes : link_telegram_read(w, t, c)
    \/ \E w \in Workers : link_telegram_commit(w)
    \/ \E w \in Workers, t \in TelegramIds : get_telegram_user(w, t)

SpecLink == Init /\ [][NextLink]_vars

\* The linking protocol with its requests issued one after the other.
NextLinkSeq ==
    \/ Serial /\ \E w \in Workers, e \in Emails, p \in Passwords : register_read(w, e, p)
    \/ \E w \in Workers : register_commit(w)
    \/ Serial /\ \E w \in Workers, u \in UserIds : generate_telegram_link_code_read(w, u)
    \/ \E w \in Workers, c \in Codes : generate_telegram_link_code_commit(w, c)
    \/ Serial /\ \E w \in Workers, t \in TelegramIds, c \in Codes : link_telegram_read(w, t, c)
    \/ \E w \in Workers : link_telegram_commit(w)
    \/ Serial /\ \E w \in Workers, t \in TelegramIds : get_telegram_user(w, t)

SpecLinkSeq == Init /\ [][NextLinkSeq]_vars

\* The database after alice and bob registered and alice redeemed her link
\* code from Telegram id 111 (register, register, generate-code, link), with no
\* request in flight and the request counter restarted.
InitLog ==
    /\ users = << [email |-> "alice@example.com", password_hash |-> pwd_hash("secret1"),
                   telegram_id |-> "111", telegram_link_code |-> Null],
                  [email |-> "bob@example.com", password_hash |-> pwd_hash("secret1"),
                   telegram_id |-> Null, telegram_link_code |-> Null] >>
    /\ habits = <<>>
    /\ habit_logs = <<>>
    /\ req = [w \in Workers |-> Idle]
    /\ last = [op |-> "link", status |-> 200, tid |-> "111", code |-> "A7X9K2", user |-> 1]
    /\ codes = [c \in Codes |-> IF c = "A7X9K2"
                                THEN [state |-> "redeemed", owner |-> 1, by |-> {"111"}]
                                ELSE NeverIssued]
    /\ nreq = 0
    /\ now = 0
    /\ issued = {[token |-> create_token(u), user |-> u, via |-> "register"] : u \in {1, 2}}
    /\ routines = <<>>

\* The completion ledger under every interleaving of its requests.
NextLog ==
    \/ \E w \in Workers, u \in UserIds : create_habit(w, u)
    \/ \E w \in Workers, u \in UserIds, h \in 1..MaxHabits : delete_habit(w, u, h)
    \/ \E w \in Workers, u \in UserIds, h \in 1..MaxHabits, d \in Dates, b \in BOOLEAN :
          log_habit_read(w, u, h, d, b)
    \/ \E w \in Workers : log_habit_commit(w)
    \/ \E w \in Workers, t \in TelegramIds, h \in 1..MaxHabits, d \in Dates, b \in BOOLEAN :
          telegram_log_habit_resolve(w, t, h, d, b)
    \/ \E w \in Workers : telegram_log_habit_read(w)
    \/ \E w \in Workers : telegram_log_habit_commit(w)

SpecLog == InitLog /\ [][NextLog]_vars

\* The completion ledger with its requests issued one after the other.
NextLogSeq ==
    \/ Serial /\ \E w \in Workers, u \in UserIds : create_habit(w, u)
    \/ Serial /\ \E w \in Workers, u \in UserIds, h \in 1..MaxHabits : delete_habit(w, u, h)
    \/ Serial /\ \E w \in Workers, u \in UserIds, h \in 1..MaxHabits, d \in Dates,
                    b \in BOOLEAN : log_habit_read(w, u, h, d, b)
    \/ \E w \in Workers : log_habit_commit(w)
    \/ Serial /\ \E w \in Workers, t \in TelegramIds, h \in 1..MaxHabits, d \in Dates,
                    b \in BOOLEAN : telegram_log_habit_resolve(w, t, h, d, b)
    \/ \E w \in Workers : telegram_log_habit_read(w)
    \/ \E w \in Workers : telegram_log_habit_commit(w)

SpecLogSeq == InitLog /\ [][NextLogSeq]_vars

\* The credentials a client may present: those handed out, one of them with
\* its subject edited, and credentials made outside this run of the program
\* (with a guessed key; with the key but without a subject, with a subject
\* that is no number, or for a row the users table does not hold, as after
\* the database file was recreated).
Presented ==
    {i.token : i \in issued}
    \cup {[payload |-> [i.token.payload EXCEPT !.sub = str(3 - i.user)], sig |-> i.token.sig] :
             i \in issued}
    \cup {jwt_encode([sub |-> "1", exp |-> now + JWT_EXPIRATION_DAYS], "guess"),
          jwt_encode([exp |-> now + JWT_EXPIRATION_DAYS], SECRET_KEY),
          jwt_encode([sub |-> "abc", exp |-> now + JWT_EXPIRATION_DAYS], SECRET_KEY),
          jwt_encode([sub |-> "3", exp |-> now + JWT_EXPIRATION_DAYS], SECRET_KEY)}

\* Registration, login and credential resolution under every interleaving,
\* with the clock running.
NextAuth ==
    \/ nreq < MaxAuthRequests /\ \E w \in Workers, e \in Emails, p \in Passwords :
          register_read(w, e, p)
    \/ \E w \in Workers : register_commit(w)
    \/ nreq < MaxAuthRequests /\ \E w \in Workers, e \in Emails, p \in Passwords :
          login(w, e, p)
    \/ nreq < MaxAuthRequests /\ \E w \in Workers, token \in Presented : get_me(w, token)
    \/ Tick

SpecAuth == Init /\ [][NextAuth]_vars

\* Habits, the bearer upsert and the day summary of both surfaces, under every
\* interleaving of their requests.
NextSum ==
    \/ \E w \in Workers, u \in UserIds : create_habit(w, u)
    \/ \E w \in Workers, u \in UserIds, h \in 1..MaxHabits : delete_habit(w, u, h)
    \/ \E w \in Workers, u \in UserIds, h \in 1..MaxHabits, d \in Dates, b \in BOOLEAN :
          log_habit_read(w, u, h, d, b)
    \/ \E w \in Workers : log_habit_commit(w)
    \/ \E w \in Workers, u \in UserIds, d \in Dates : get_day_summary_habits(w, u, d)
    \/ \E w \in Workers : get_day_summary_logs(w)
    \/ \E w \in Workers, t \in TelegramIds, d \in Dates : get_telegram_summary_resolve(w, t, d)
    \/ \E w \in Workers : get_telegram_summary_habits(w)
    \/ \E w \in Workers : get_telegram_summary_logs(w)

SpecSum == InitLog /\ [][NextSum]_vars

\* Habits, the bearer upsert and the week summary, with the requests issued
\* one after the other.
NextWeek ==
    \/ Serial /\ \E w \in Workers, u \in UserIds : create_habit(w, u)
    \/ Serial /\ \E w \in Workers, u \in UserIds, h \in 1..MaxHabits : delete_habit(w, u, h)
    \/ Serial /\ \E w \in Workers, u \in UserIds, h \in 1..MaxHabits, d \in Dates,
                    b \in BOOLEAN : log_habit_read(w, u, h, d, b)
    \/ \E w \in Workers : log_habit_commit(w)
    \/ Serial /\ \E w \in Workers, u \in UserIds, d \in Dates : get_week_summary(w, u, d)
    \/ \E w \in Workers : get_week_summary_habits(w)
    \/ \E w \in Workers : get_week_summary_logs(w)

SpecWeek == InitLog /\ [][NextWeek]_vars

\* The database of InitLog after alice saved a one-step morning routine and
\* bob another.
InitRoutine ==
    /\ users = << [email |-> "alice@example.com", password_hash |-> pwd_hash("secret1"),
                   telegram_id |-> "111", telegram_link_code |-> Null],
                  [email |-> "bob@example.com", password_hash |-> pwd_hash("secret1"),
                   telegram_id |-> Null, telegram_link_code |-> Null] >>
    /\ habits = <<>>
    /\ habit_logs = <<>>
    /\ req = [w \in Workers |-> Idle]
    /\ last = [op |-> "replace_routine", status |-> 200, user |-> 2, type |-> "morning",
               steps |-> Steps(NewSteps(2, "morning", <<"Meditar">>))]
    /\ codes = [c \in Codes |-> IF c = "A7X9K2"
                                THEN [state |-> "redeemed", owner |-> 1, by |-> {"111"}]
                                ELSE NeverIssued]
    /\ nreq = 0
    /\ now = 0
    /\ issued = {[token |-> create_token(u), user |-> u, via |-> "register"] : u \in {1, 2}}
    /\ routines = NewSteps(1, "morning", <<"Ducha fría">>)
                     \o NewSteps(2, "morning", <<"Meditar">>)

\* The routines under every interleaving of their requests.
NextRoutine ==
    \/ nreq < MaxRoutineRequests /\
          \E w \in Workers, u \in UserIds, ty \in RequestedTypes, order \in StepOrders,
             description \in Descriptions : create_routine_step(w, u, ty, order, description)
    \/ nreq < MaxRoutineRequests /\
          \E w \in Workers, u \in UserIds, ty \in RequestedTypes, steps \in StepLists :
             replace_routine_delete(w, u, ty, steps)
    \/ \E w \in Workers : replace_routine_commit(w)
    \/ nreq < MaxRoutineRequests /\
          \E w \in Workers, u \in UserIds, ty \in RequestedTypes : list_routine(w, u, ty)
    \/ nreq < MaxRoutineRequests /\
          \E w \in Workers, t \in TelegramIds, ty \in RequestedTypes :
             get_telegram_routine_resolve(w, t, ty)
    \/ \E w \in Workers : get_telegram_routine_steps(w)

SpecRoutine == InitRoutine /\ [][NextRoutine]_vars

\* Habits, the bearer upsert, the day summary and the routines of the bearer
\* surface, with the requests issued one after the other.
NextIso ==
    \/ Serial /\ nreq < MaxRoutineRequests /\
          \E w \in Workers, u \in UserIds : create_habit(w, u)
    \/ Serial /\ nreq < MaxRoutineRequests /\
          \E w \in Workers, u \in UserIds, h \in 1..MaxHabits : delete_habit(w, u, h)
    \/ Serial /\ nreq < MaxRoutineRequests /\
          \E w \in Workers, u \in UserIds, h \in 1..MaxHabits, d \in Dates, b \in BOOLEAN :
             log_habit_read(w, u, h, d, b)
    \/ \E w \in Workers : log_habit_commit(w)
    \/ Serial /\ nreq < MaxRoutineRequests /\
          \E w \in Workers, u \in UserIds, d \in Dates : get_day_summary_habits(w, u, d)
    \/ \E w \in Workers : get_day_summary_logs(w)
    \/ Serial /\ nreq < MaxRoutineRequests /\
          \E w \in Workers, u \in UserIds, ty \in RoutineTypes, order \in StepOrders,
             description \in Descriptions : create_routine_step(w, u, ty, order, description)
    \/ Serial /\ nreq < MaxRoutineRequests /\
          \E w \in Workers, u \in UserIds, ty \in RoutineTypes, steps \in StepLists :
             replace_routine_delete(w, u, ty, steps)
    \/ \E w \in Workers : replace_routine_commit(w)
    \/ Serial /\ nreq < MaxRoutineRequests /\
          \E w \in Workers, u \in UserIds, ty \in RoutineTypes : list_routine(w, u, ty)

SpecIso == InitRoutine /\ [][NextIso]_vars

\* ------------------------------------------------------------------ claims
\* Steps of the handlers, as seen on a pair of states.
LinkCommitStep(w) == req[w].op = "link" /\ req'[w] = Idle
GenerateCommitStep(w) == req[w].op = "generate_code" /\ req'[w] = Idle
LogCommitStep(w) == req[w].op = "log" /\ req'[w] = Idle
\* Another account than u is bound to Telegram id t.
BoundElsewhere(u, t) == \E v \in UserIds : v # u /\ users[v].telegram_id = t

\* C1: under any interleaving of upserts (bearer and bot surface) there is at
\* most one habit_logs row per (owner, habit, date).
C1_OneRecordPerTriple ==
    \A u \in UserIds, h \in HabitIds, d \in Dates : Cardinality(LogsFor(u, h, d)) <= 1

\* C2: of the redemptions of one issuance of a link code, carrying different
\* Telegram ids, at most one succeeds.
C2_AtMostOneRedemption ==
    \A c \in Codes : Cardinality(codes[c].by) <= 1

\* C3: an upsert that completes leaves exactly one row for its triple, carrying
\* the flag of that call; in particular a second call with the other flag.
C3_SecondUpsertWins ==
    [][\A w \in Workers : LogCommitStep(w) =>
          LET rows == {l \in DOMAIN habit_logs' :
                          /\ habit_logs'[l].user_id = req[w].user
                          /\ habit_logs'[l].habit_id = req[w].habit
                          /\ habit_logs'[l].date = req[w].date}
          IN /\ Cardinality(rows) = 1
             /\ \A l \in rows : habit_logs'[l].completed = req[w].completed
      ]_vars

\* C3 witness: a second upsert for a triple, with the other flag, has completed.
C3_Witness ==
    /\ last.op = "log" /\ last.status = 200 /\ last.changed
    /\ Len(habit_logs) = 1

\* C4 as claimed: the first redeemCode of an issued code succeeds, and after it
\* a redeemCode with the same code is answered NotFound.
C4_FirstRedeemSucceeds ==
    [][/\ \A w \in Workers, t \in TelegramIds, c \in Codes :
             (link_telegram_read(w, t, c) /\ codes[c].state = "pending")
                => (req'[w].op = "link" /\ req'[w].user = codes[c].owner)
       /\ \A w \in Workers :
             (LinkCommitStep(w) /\ codes[req[w].code].state = "pending")
                => last'.status = 200
       /\ \A w \in Workers, t \in TelegramIds, c \in Codes :
             (link_telegram_read(w, t, c) /\ codes[c].state = "redeemed")
                => (last'.op = "link" /\ last'.status = 404 /\ req' = req)
      ]_vars

\* C4 as amended: the first redeemCode of an issued code succeeds when its
\* Telegram id is not bound to another account, and after a successful
\* redemption a redeemCode with the same code is answered NotFound.
C4_SingleUse ==
    [][/\ \A w \in Workers, t \in TelegramIds, c \in Codes :
             (link_telegram_read(w, t, c) /\ codes[c].state = "pending")
                => (req'[w].op = "link" /\ req'[w].user = codes[c].owner)
       /\ \A w \in Workers :
             (/\ LinkCommitStep(w)
              /\ codes[req[w].code].state = "pending"
              /\ ~BoundElsewhere(req[w].user, req[w].tid))
                => (last'.status = 200 /\ codes'[req[w].code].state = "redeemed")
       /\ \A w \in Workers, t \in TelegramIds, c \in Codes :
             (link_telegram_read(w, t, c) /\ codes[c].state = "redeemed")
                => (last'.op = "link" /\ last'.status = 404 /\ req' = req)
      ]_vars

\* C4 witness: a code was redeemed and its second redemption was refused.
C4_Witness ==
    /\ last.op = "link" /\ last.status = 404
    /\ codes[last.code].state = "redeemed"

\* C5: once an account has been issued a new code, a redeemCode with its
\* previous code is answered NotFound, and the new code is the one pending.
C5_ReissueInvalidates ==
    [][/\ \A w \in Workers, t \in TelegramIds, c \in Codes :
             (link_telegram_read(w, t, c) /\ codes[c].state = "superseded")
                => (last'.op = "link" /\ last'.status = 404 /\ req' = req)
       /\ \A w \in Workers :
             (GenerateCommitStep(w) /\ last'.status = 200)
                => /\ users'[req[w].user].telegram_link_code = last'.code
                   /\ \A c \in Codes : codes'[c].state = "superseded"
                         => \A u \in UserIds : users'[u].telegram_link_code # c
      ]_vars

\* C5 witness: the old code of an account that holds a newer one was refused.
C5_Witness ==
    /\ last.op = "link" /\ last.status = 404
    /\ codes[last.code].state = "superseded"
    /\ users[codes[last.code].owner].telegram_link_code \notin {Null, last.code}

\* C6: a successful redeemCode leaves the Telegram id resolving to the account
\* that held the code, and that account without a pending code; an id bound to
\* no account resolves to NotFound.
C6_RedeemBinds ==
    [][/\ \A w \in Workers, t \in TelegramIds :
             (LinkCommitStep(w) /\ req[w].tid = t /\ last'.status = 200)
                => /\ get_user_by_telegram(t)' = [status |-> 200, user |-> req[w].user]
                   /\ users'[req[w].user].telegram_link_code = Null
       /\ \A w \in Workers, t \in TelegramIds :
             (get_telegram_user(w, t) /\ \A u \in UserIds : users[u].telegram_id # t)
                => last'.status = 404
      ]_vars

\* C6 witness: a redemption succeeded and its Telegram id resolves to the account.
C6_Witness ==
    /\ last.op = "link" /\ last.status = 200
    /\ get_user_by_telegram(last.tid) = [status |-> 200, user |-> last.user]
    /\ users[last.user].telegram_link_code = Null

\* C7 as claimed: a redeemCode whose Telegram id is bound to another account
\* succeeds and moves the binding to the account that held the code.
C7_SilentOverwrite ==
    [][\A w \in Workers, t \in TelegramIds :
          (LinkCommitStep(w) /\ req[w].tid = t /\ BoundElsewhere(req[w].user, t))
             => /\ last'.status = 200
                /\ get_user_by_telegram(t)' = [status |-> 200, user |-> req[w].user]
      ]_vars

\* C7 as amended: a redeemCode whose Telegram id is bound to another account
\* fails on the unique constraint (500) and writes nothing: the id still
\* resolves to the other account and the code stays pending.
C7_RebindRejected ==
    [][\A w \in Workers, t \in TelegramIds :
          (LinkCommitStep(w) /\ req[w].tid = t /\ BoundElsewhere(req[w].user, t))
             => /\ last'.status = 500
                /\ users' = users
                /\ get_user_by_telegram(t)'.user # req[w].user
                /\ users'[req[w].user].telegram_link_code = req[w].code
      ]_vars

\* C7 witness: a redemption with an id bound to another account was refused.
C7_Witness ==
    /\ last.op = "link" /\ last.status = 500
    /\ get_user_by_telegram(last.tid).status = 200
    /\ get_user_by_telegram(last.tid).user # last.user
    /\ users[last.user].telegram_link_code = last.code

\* C8: no two accounts carry the same non-null telegram_id.
C8_TelegramIdUnique ==
    \A u, v \in UserIds :
        (u # v /\ users[u].telegram_id # Null) => users[u].telegram_id # users[v].telegram_id

\* C8 witness: an account tried to take the Telegram id of another and was refused.
C8_Witness ==
    /\ last.op = "link" /\ last.status = 500
    /\ BoundElsewhere(last.user, last.tid)
    /\ users[last.user].telegram_id # last.tid

\* C9: no two accounts carry the same non-null pending link code.
C9_LinkCodeUnique ==
    \A u, v \in UserIds :
        (u # v /\ users[u].telegram_link_code # Null)
            => users[u].telegram_link_code # users[v].telegram_link_code

\* C9 witness: the generator drew a code that is pending on another account.
C9_Witness ==
    /\ last.op = "generate_code" /\ last.status = 500
    /\ \E v \in UserIds : v # last.user /\ users[v].telegram_link_code = last.code

\* The linking state of account u.
LinkState(u) ==
    IF users[u].telegram_id # Null THEN "Linked"
    ELSE IF users[u].telegram_link_code # Null THEN "CodeIssued"
    ELSE "Unlinked"

\* C10: an account moves Unlinked -> CodeIssued -> Linked, may stay where it
\* is, and once its telegram_id is non-null no step makes it null again.
C10_NeverUnlinked ==
    [][\A u \in UserIds :
          /\ users[u].telegram_id # Null => users'[u].telegram_id # Null
          /\ <<LinkState(u), LinkState(u)'>> \in
                {<<"Unlinked", "Unlinked">>, <<"Unlinked", "CodeIssued">>,
                 <<"CodeIssued", "CodeIssued">>, <<"CodeIssued", "Linked">>,
                 <<"Linked", "Linked">>}
      ]_vars

\* C10 witness: a linked account was issued a new code and is still linked.
C10_Witness ==
    /\ last.op = "generate_code" /\ last.status = 200
    /\ users[last.user].telegram_id # Null
    /\ users[last.user].telegram_link_code = last.code

\* Account u was registered with email e and password p.
RegisteredWith(u, e, p) == users[u].email = e /\ users[u].password_hash = <<"bcrypt", p>>
\* The signature of a credential is not the server's over its payload.
Tampered(token) == token.sig # <<"HS256", SECRET_KEY, token.payload>>
\* The payload has no subject, or one that is not a number.
Malformed(token) ==
    \/ "sub" \notin DOMAIN token.payload
    \/ token.payload.sub \notin {"1", "2", "3"}
\* A step that takes the registration of worker w to its end.
RegisterCommitStep(w) == req[w].op = "register" /\ req'[w] = Idle

\* C11: a login with the email and password of a registered account succeeds
\* and returns a credential for that account, and a credential handed out
\* resolves to its account for as long as it is unexpired.
C11_LoginResolves ==
    [][/\ \A w \in Workers, e \in Emails, p \in Passwords, u \in UserIds :
             (login(w, e, p) /\ RegisteredWith(u, e, p))
                => /\ last'.status = 200 /\ last'.user = u
                   /\ [token |-> last'.token, user |-> u, via |-> "login"] \in issued'
       /\ \A w \in Workers, i \in issued :
             (get_me(w, i.token) /\ now < i.token.payload.exp)
                => (last'.status = 200 /\ last'.user = i.user)
      ]_vars

\* C11 witness: a credential returned by a login was resolved, days after it
\* was handed out, to the account that logged in.
C11_Witness ==
    /\ last.op = "me" /\ last.status = 200
    /\ \E i \in issued : i.via = "login" /\ i.token = last.token /\ i.user = last.user
    /\ last.token.payload.exp < now + JWT_EXPIRATION_DAYS
    /\ RegisteredWith(last.user, "alice@example.com", "secret1")

\* C12: a credential that is past its expiry, whose signature does not verify
\* or whose payload has no integer subject is answered 401 and no account.
C12_InvalidCredentialUnauthorized ==
    [][\A w \in Workers, token \in Presented :
          (/\ get_me(w, token)
           /\ \/ token.payload.exp < now
              \/ Tampered(token)
              \/ Malformed(token))
             => (last'.status = 401 /\ last'.user = 0)
      ]_vars

\* C12 witness: a credential the server handed out was refused after its expiry.
C12_Witness ==
    /\ last.op = "me" /\ last.status = 401
    /\ \E i \in issued : i.token = last.token
    /\ last.token.payload.exp < now

\* C13: a validly signed, unexpired credential whose account id matches no
\* account is answered 401, like an invalid credential.
C13_UnknownAccountUnauthorized ==
    [][\A w \in Workers, token \in Presented :
          (/\ get_me(w, token)
           /\ ~Tampered(token) /\ ~Malformed(token) /\ now < token.payload.exp
           /\ int(token.payload.sub) \notin UserIds)
             => last'.status = 401
      ]_vars

\* C14: a login with an unknown email and a login with a wrong password get
\* the same answer (401, the same message, no credential), and change nothing.
C14_LoginFailureUniform ==
    [][\A w \in Workers, e \in Emails, p \in Passwords :
          (/\ login(w, e, p)
           /\ \A u \in UserIds : ~RegisteredWith(u, e, p))
             => /\ last'.status = 401
                /\ last'.detail = "Email o contraseña incorrectos"
                /\ last'.user = 0
                /\ "token" \notin DOMAIN last'
                /\ UNCHANGED <<users, habits, habit_logs, req, codes, issued>>
      ]_vars

\* C14 witness: a login with the email of an account and a wrong password failed.
C14_Witness ==
    /\ last.op = "login" /\ last.status = 401
    /\ \E u \in UserIds : users[u].email = last.email

\* C15: a registration with a password shorter than 6 characters is answered
\* 400 and goes no further; one with a fresh email and a longer password goes
\* on to its INSERT, which adds exactly one account when the email is fresh.
C15_PasswordLength ==
    [][/\ \A w \in Workers, e \in Emails, p \in Passwords :
             (register_read(w, e, p) /\ Len(p) < MinPasswordLen)
                => (last'.op = "register" /\ last'.status = 400
                    /\ users' = users /\ req' = req)
       /\ \A w \in Workers, e \in Emails, p \in Passwords :
             (/\ register_read(w, e, p) /\ Len(p) >= MinPasswordLen
              /\ \A u \in UserIds : users[u].email # e)
                => (req'[w].op = "register" /\ req'[w].email = e /\ users' = users)
       /\ \A w \in Workers :
             (RegisterCommitStep(w) /\ \A u \in UserIds : users[u].email # req[w].email)
                => /\ Len(req[w].password) >= MinPasswordLen
                   /\ Len(users') = Len(users) + 1
                   /\ \A u \in UserIds : users'[u] = users[u]
                   /\ users'[Len(users')].email = req[w].email
                   /\ users'[Len(users')].password_hash = <<"bcrypt", req[w].password>>
                   /\ last'.status = 200 /\ last'.user = Len(users')
      ]_vars

\* C15 witness: one account exists and a registration with a fresh email and a
\* short password has just been refused.
C15_Witness ==
    /\ last.op = "register" /\ last.status = 400
    /\ last.detail = "La contraseña debe tener al menos 6 caracteres"
    /\ Len(users) = 1
    /\ users[1].email # last.email

\* C16: a registration whose email belongs to an account is refused with a
\* client error that differs from the one of a weak password (in status or in
\* message), adds no account, and no two accounts share an email.
C16_DuplicateEmailConflict ==
    [][/\ \A w \in Workers, e \in Emails, p \in Passwords :
             (register_read(w, e, p) /\ \E u \in UserIds : users[u].email = e)
                => /\ last'.status \in {400, 409}
                   /\ last'.detail # "La contraseña debe tener al menos 6 caracteres"
                   /\ users' = users /\ req' = req
       /\ \A w \in Workers :
             (RegisterCommitStep(w) /\ \E u \in UserIds : users[u].email = req[w].email)
                => /\ last'.status \in {400, 409}
                   /\ last'.detail # "La contraseña debe tener al menos 6 caracteres"
                   /\ users' = users
       /\ \A u, v \in DOMAIN users' : u # v => users'[u].email # users'[v].email
      ]_vars

\* Habit h exists and belongs to account u.
OwnsHabit(u, h) == \E k \in DOMAIN habits : k = h /\ habits[k].user_id = u

\* C17: an upsert, on either surface, for a habit id that does not exist or
\* belongs to another account is answered 404 and goes no further: no row of
\* habit_logs is added or changed, and every row written is for a habit of
\* the caller.
C17_ForeignHabitNotFound ==
    [][/\ nreq' # nreq =>
             \A w \in Workers : FreeWorker(w) =>
                \A u \in UserIds, h \in 1..MaxHabits : ~OwnsHabit(u, h) =>
                   \A d \in Dates, b \in BOOLEAN : log_habit_read(w, u, h, d, b)
                      => (last'.op = "log" /\ last'.status = 404
                          /\ habit_logs' = habit_logs /\ req' = req)
       /\ \A w \in Workers :
             (/\ req[w].op = "telegram_log" /\ req'[w] # req[w]
              /\ ~OwnsHabit(req[w].user, req[w].habit))
                => /\ last'.op = "log" /\ last'.status = 404
                   /\ habit_logs' = habit_logs /\ req'[w] = Idle
       /\ \A w \in Workers : LogCommitStep(w) => OwnsHabit(req[w].user, req[w].habit)
       /\ habit_logs' # habit_logs => \E w \in Workers : LogCommitStep(w)
      ]_vars

\* C17 witness: every habit belongs to bob, and an upsert from alice's Telegram
\* id has just been answered "habit not found" with nothing logged.
C17_Witness ==
    /\ last = LogResponse("telegram", 404, FALSE)
    /\ Len(habits) = MaxHabits
    /\ \A h \in HabitIds : habits[h].user_id = 2
    /\ habit_logs = <<>>

\* A day summary is answered by worker w, with no habit created or deactivated
\* since the handler loaded the active habits.
SummaryStep(w) ==
    /\ req[w].op \in {"day_summary", "telegram_summary"}
    /\ req'[w] = Idle
    /\ req[w].habits = ActiveHabits(req[w].user)
\* The active habits of u that have a record for day d with completed = true.
CompletedActive(u, d) ==
    {h \in ActiveHabits(u) :
        \E l \in LogIds : /\ habit_logs[l].user_id = u /\ habit_logs[l].habit_id = h
                           /\ habit_logs[l].date = d /\ habit_logs[l].completed}
\* The detail list of a summary response, as (habit, completed) entries.
Detail(resp) ==
    IF resp.op = "day_summary"
    THEN [k \in DOMAIN resp.habits |->
             [habit |-> resp.habits[k].habit_id, completed |-> resp.habits[k].completed]]
    ELSE [k \in DOMAIN resp.habits_detail |->
             [habit |-> resp.habits_detail[k].name,
              completed |-> resp.habits_detail[k].completed]]

\* C18: a day summary, on either surface, has total = the number of the
\* owner's active habits, completed = the number of those with a completed
\* record for the day (so completed <= total), and the rounded percentage.
C18_SummaryCounts ==
    [][\A w \in Workers : SummaryStep(w) =>
          LET total == Cardinality(ActiveHabits(req[w].user))
              done == Cardinality(CompletedActive(req[w].user, req[w].date))
          IN /\ last'.total_habits = total
             /\ last'.completed = done
             /\ last'.completed <= last'.total_habits
             /\ last'.percentage = IF total > 0 THEN RoundHalfEven(1000 * done, total) ELSE 0
      ]_vars

\* C19: the detail list of a day summary, on either surface, has exactly one
\* entry per active habit of the owner, carrying the completed flag of its
\* record for the day or false without one, and no entry for any other habit.
C19_DetailPerActiveHabit ==
    [][\A w \in Workers : SummaryStep(w) =>
          LET detail == Detail(last')
              u == req[w].user
          IN /\ \A h \in ActiveHabits(u) :
                   /\ Cardinality({k \in DOMAIN detail : detail[k].habit = h}) = 1
                   /\ \A k \in DOMAIN detail : detail[k].habit = h =>
                          (detail[k].completed <=> h \in CompletedActive(u, req[w].date))
             /\ \A k \in DOMAIN detail : detail[k].habit \in ActiveHabits(u)
      ]_vars

\* C20: for an account bound to a Telegram id, the day summary read through
\* that id and the one read with the account's credential agree on total,
\* completed and percentage, for every date and in every state.
C20_SurfacesAgree ==
    \A u \in UserIds, d \in Dates :
        users[u].telegram_id # Null =>
            LET bearer == DaySummary(u, d, ActiveHabits(u))
                bot == TelegramSummary(get_user_by_telegram(users[u].telegram_id).user, d,
                                       ActiveHabits(u))
            IN /\ bearer.total_habits = bot.total_habits
               /\ bearer.completed = bot.completed
               /\ bearer.percentage = bot.percentage

\* The (owner, habit, date) triples that have a habit_logs row.
LoggedTriples ==
    {<<habit_logs[l].user_id, habit_logs[l].habit_id, habit_logs[l].date>> : l \in LogIds}

\* C25: no step removes a habit or a completion record: the set of habit ids
\* and the set of (owner, habit, date) triples with a record only grow, a habit
\* keeps its owner, and a DELETE /habits/{id} that succeeds only sets the
\* habit's active flag to false and leaves habit_logs as it was.
C25_NeverRemoved ==
    [][/\ DOMAIN habits \subseteq DOMAIN habits'
       /\ \A h \in DOMAIN habits : habits'[h].user_id = habits[h].user_id
       /\ LoggedTriples \subseteq LoggedTriples'
       /\ DOMAIN habit_logs \subseteq DOMAIN habit_logs'
       /\ (last'.op = "delete_habit" /\ last'.status = 200 /\ nreq' # nreq) =>
             /\ habit_logs' = habit_logs
             /\ \E h \in DOMAIN habits : habits' = [habits EXCEPT ![h].active = FALSE]
      ]_vars

\* C25 witness: a habit that has a completion record was deleted; the habit
\* row is still there, inactive, and so is its record.
C25_Witness ==
    /\ last.op = "delete_habit" /\ last.status = 200
    /\ \E l \in LogIds : /\ habit_logs[l].habit_id \in HabitIds
                          /\ ~habits[habit_logs[l].habit_id].active

\* Habit h belongs to account u and was deactivated by DELETE /habits/{id}.
Deactivated(u, h) == h \in HabitIds /\ habits[h].user_id = u /\ ~habits[h].active

\* C27: the upsert does not look at the habit's active flag.  For a
\* deactivated habit of the caller, POST /logs and the bot's log-habit go on to
\* the commit, which answers 200 and leaves the record of that day with the
\* flag of the call: a new row when there was none, the existing row otherwise.
C27_InactiveHabitLogged ==
    [][/\ nreq' # nreq =>
             \A w \in Workers : FreeWorker(w) =>
                \A u \in UserIds, h \in HabitIds : Deactivated(u, h) =>
                   \A d \in Dates, b \in BOOLEAN : log_habit_read(w, u, h, d, b) =>
                      /\ req'[w] = LogRequest("bearer", u, h, d, b)
                      /\ last' = last
       /\ \A w \in Workers :
             (req[w].op = "telegram_log" /\ req'[w] # req[w]
                 /\ Deactivated(req[w].user, req[w].habit)) =>
                /\ req'[w] = LogRequest("telegram", req[w].user, req[w].habit,
                                        req[w].date, req[w].completed)
                /\ last' = last
       /\ \A w \in Workers :
             (LogCommitStep(w) /\ Deactivated(req[w].user, req[w].habit)) =>
                LET r == req[w]
                    before == LogsFor(r.user, r.habit, r.date)
                    after == {l \in DOMAIN habit_logs' :
                                 /\ habit_logs'[l].user_id = r.user
                                 /\ habit_logs'[l].habit_id = r.habit
                                 /\ habit_logs'[l].date = r.date}
                IN /\ last'.status = 200
                   /\ after # {}
                   /\ \A l \in after : habit_logs'[l].completed = r.completed
                   /\ before = {} => Len(habit_logs') = Len(habit_logs) + 1
                   /\ before # {} => after = before
      ]_vars

\* C27 witness: the only habit there is was deactivated, and the request that
\* completed last, after that, logged it on the given surface with 200.
C27_WitnessOn(surface) ==
    /\ Len(habits) = 1 /\ ~habits[1].active
    /\ last = LogResponse(surface, 200, FALSE)
    /\ Len(habit_logs) = 1 /\ habit_logs[1].habit_id = 1

C27_Witness == C27_WitnessOn("telegram")
C27_WitnessBearer == C27_WitnessOn("bearer")

\* C28: generate-code writes nothing but the telegram_link_code of the calling
\* account and succeeds in every linking state (save the draw of a code another
\* account holds); in particular the Telegram binding of an already linked
\* account stays.  A following link from a Telegram id Y bound to nobody
\* replaces the binding: Y then resolves to the account, and the id X it was
\* bound to resolves to nothing (404).
C28_ReissueThenRebind ==
    [][/\ \A w \in Workers : GenerateCommitStep(w) =>
             LET u == req[w].user IN
             /\ DOMAIN users' = DOMAIN users
             /\ \A v \in UserIds : v # u => users'[v] = users[v]
             /\ users'[u] = [users[u] EXCEPT !.telegram_link_code = users'[u].telegram_link_code]
             /\ <<habits', habit_logs'>> = <<habits, habit_logs>>
             /\ last'.status = 200 \/ LinkCodeTaken(u, last'.code)
             /\ last'.status = 200 => users'[u].telegram_link_code = last'.code
       /\ \A w \in Workers :
             (LinkCommitStep(w) /\ users[req[w].user].telegram_id \notin {Null, req[w].tid}
                 /\ UserByTelegram(req[w].tid) = {}) =>
                LET X == users[req[w].user].telegram_id
                    Y == req[w].tid
                IN /\ last'.status = 200
                   /\ {v \in DOMAIN users' : users'[v].telegram_id = Y} = {req[w].user}
                   /\ {v \in DOMAIN users' : users'[v].telegram_id = X} = {}
      ]_vars

\* C28 witness: an account that redeemed a code from Telegram id 111 was
\* issued another code and redeemed it from 222; 222 now resolves to it and
\* 111 to nothing.
C28_Witness ==
    /\ last.op = "link" /\ last.status = 200 /\ last.tid = "222"
    /\ \E c \in Codes : /\ c # last.code
                         /\ codes[c] = [state |-> "redeemed", owner |-> last.user,
                                         by |-> {"111"}]
    /\ codes[last.code].owner = last.user
    /\ get_user_by_telegram("222") = [status |-> 200, user |-> last.user]
    /\ get_user_by_telegram("111").status = 404

\* C26: a code returned by generate-code stays the pending code of its account
\* until it is redeemed or the account is issued another one: no step of any
\* interleaving takes a pending code out of its account's row otherwise, in
\* particular not the commit of a concurrent link that redeems the previous
\* code.
C26_PendingCodeStays ==
    [][\A c \in Codes :
          (codes[c].state = "pending" /\ users[codes[c].owner].telegram_link_code = c) =>
             \/ users'[codes[c].owner].telegram_link_code = c
             \/ codes'[c].state # "pending"
      ]_vars

\* C21: the week summary of an account for an end date has exactly seven
\* entries; entry i (from 0) is the day summary of the account for the end date
\* minus i days, so the dates run backwards from the end date, and every entry
\* carries the number of active habits of the account as its total.
C21_WeekIsSevenDays ==
    [][\A w \in Workers :
          (req[w].op = "week_summary_day" /\ req'[w] = Idle) =>
             LET u == req[w].user
                 e == Ordinal(req[w].log_date)
                 week == last'.summaries
             IN /\ Len(week) = 7
                /\ \A i \in 0..6 :
                      /\ week[i + 1] = DaySummary(u, Calendar[e - i], ActiveHabits(u))
                      /\ week[i + 1].date = Calendar[e - i]
                      /\ week[i + 1].total_habits = Cardinality(ActiveHabits(u))
                /\ \A i \in 1..6 : Ordinal(week[i + 1].date) + 1 = Ordinal(week[i].date)
      ]_vars

\* C21 witness: a week summary was returned whose first two entries differ: the
\* end date and the day before have different completed counts.
C21_Witness ==
    /\ last.op = "week_summary" /\ last.status = 200
    /\ last.summaries[1].total_habits > 0
    /\ last.summaries[1].completed # last.summaries[2].completed

\* The rows of routines account u owns, in table order.
StepsOwnedBy(u) ==
    LET Owned(r) == r.user_id = u IN SelectSeq(routines, Owned)

\* A step taken under the identity of account A touches no row of another
\* account, gives every row it adds the owner A, and answers with rows of A
\* only.
Isolated(A) ==
    /\ \A h \in DOMAIN habits : habits[h].user_id # A =>
          h \in DOMAIN habits' /\ habits'[h] = habits[h]
    /\ \A h \in DOMAIN habits' : h \notin DOMAIN habits => habits'[h].user_id = A
    /\ \A l \in DOMAIN habit_logs : habit_logs[l].user_id # A =>
          l \in DOMAIN habit_logs' /\ habit_logs'[l] = habit_logs[l]
    /\ \A l \in DOMAIN habit_logs' :
          /\ l \notin DOMAIN habit_logs => habit_logs'[l].user_id = A
          /\ habit_logs'[l].habit_id \in DOMAIN habits
          /\ habits[habit_logs'[l].habit_id].user_id = habit_logs'[l].user_id
    /\ \A B \in UserIds : B # A => StepsOwnedBy(B)' = StepsOwnedBy(B)
    /\ \A i \in DOMAIN routines' : routines'[i].user_id \in UserIds
    /\ last' # last =>
          /\ last'.op = "day_summary" =>
                /\ \A l \in DOMAIN last'.habits : habit_logs[l].user_id = A
                /\ last'.total_habits =
                      Cardinality({h \in HabitIds : habits[h].user_id = A /\ habits[h].active})
                /\ last'.completed <=
                      Cardinality({l \in LogIds : habit_logs[l].user_id = A})
          /\ (last'.op \in {"list_routine", "replace_routine"} /\ last'.status = 200) =>
                /\ last'.user = A
                /\ \A e \in DOMAIN last'.steps :
                      last'.steps[e] =
                         Cardinality({i \in DOMAIN routines' :
                                         /\ routines'[i].user_id = A
                                         /\ routines'[i].type = last'.type
                                         /\ <<routines'[i].step_order,
                                              routines'[i].description>> = e})
                /\ \A i \in DOMAIN routines' :
                      (routines'[i].user_id = A /\ routines'[i].type = last'.type) =>
                         <<routines'[i].step_order, routines'[i].description>>
                            \in DOMAIN last'.steps
          /\ (last'.op = "create_routine_step" /\ last'.status = 200) => last'.user = A

\* C22: whatever account A does with its credential (create or delete a
\* habit, log a completion, read a day summary, add a routine step, replace or
\* read a routine), no habit, routine step or completion record of another
\* account is changed, removed or returned, and every row created has owner A.
C22_Isolation ==
    [][/\ nreq' # nreq =>
             \A w \in Workers : FreeWorker(w) =>
                \A A \in UserIds :
                   \/ Isolated(A)
                   \/ ~(\/ create_habit(w, A)
                        \/ \E h \in 1..MaxHabits : delete_habit(w, A, h)
                        \/ \E h \in 1..MaxHabits, d \in Dates, b \in BOOLEAN :
                              log_habit_read(w, A, h, d, b)
                        \/ \E d \in Dates : get_day_summary_habits(w, A, d)
                        \/ \E ty \in RoutineTypes, order \in StepOrders,
                              description \in Descriptions :
                                 create_routine_step(w, A, ty, order, description)
                        \/ \E ty \in RoutineTypes, steps \in StepLists :
                              replace_routine_delete(w, A, ty, steps)
                        \/ \E ty \in RoutineTypes : list_routine(w, A, ty))
       /\ \A w \in Workers :
             (req[w].op \in {"log", "day_summary", "replace_routine"} /\ req'[w] = Idle)
                => Isolated(req[w].user)
      ]_vars

\* C22 witness: alice replaced her morning routine by two steps while bob
\* has a morning routine, a habit and a completion record of his own.
C22_Witness ==
    /\ last.op = "replace_routine" /\ last.status = 200
    /\ last.user = 1 /\ last.type = "morning"
    /\ Len(RoutineRows(1, "morning")) = 2
    /\ RoutineRows(2, "morning") # <<>>
    /\ \E l \in LogIds : habit_logs[l].user_id = 2

\* The last step of a replace_routine.
ReplaceCommitStep(w) == req[w].op = "replace_routine" /\ req'[w] = Idle

\* What a reader of routine (u, ty) may be given while a replace_routine of
\* that routine is in flight: the steps it had before, or the new ones.
OldOrNew(u, ty, steps) ==
    \A v \in Workers :
        (req[v].op = "replace_routine" /\ req[v].user = u /\ req[v].type = ty) =>
            steps \in {req[v].old, Steps(NewSteps(u, ty, req[v].steps))}

\* C23: replace_routine is atomic.  A read of the routine, with the credential
\* or through the bot, that runs while a replace of that routine is between
\* its DELETE and its commit returns the complete old steps or the complete
\* new ones; the commit leaves the routine with exactly the given
\* descriptions, numbered 1..n in input order, and leaves the owner's other
\* routine and the routines of other accounts as they were.
C23_ReplaceAtomic ==
    [][/\ nreq' # nreq =>
             \A w \in Workers : FreeWorker(w) =>
                \A u \in UserIds, ty \in RoutineTypes : list_routine(w, u, ty) =>
                   OldOrNew(u, ty, last'.steps)
       /\ \A w \in Workers :
             (req[w].op = "telegram_routine" /\ req'[w] = Idle) =>
                OldOrNew(req[w].user, req[w].type, last'.steps)
       /\ \A w \in Workers : ReplaceCommitStep(w) =>
             \A u \in UserIds, ty \in RoutineTypes :
                RoutineRows(u, ty)' =
                   IF u = req[w].user /\ ty = req[w].type
                   THEN NewSteps(u, ty, req[w].steps)
                   ELSE RoutineRows(u, ty)
       /\ \A w \in Workers :
             (req'[w].op = "replace_routine" /\ req[w] = Idle) =>
                \A u \in UserIds, ty \in RoutineTypes :
                   Steps(RoutineRows(u, ty))' =
                      IF u = req'[w].user /\ ty = req'[w].type
                      THEN req'[w].old ELSE Steps(RoutineRows(u, ty))
      ]_vars

\* C23 witness: a bot read of alice's morning routine has resolved alice and
\* is about to SELECT the steps while a replace of that routine, from one step
\* to two, is between its DELETE and its commit.
C23_Witness ==
    \E v, w \in Workers :
        /\ req[v].op = "replace_routine" /\ req[w].op = "telegram_routine"
        /\ req[v].user = req[w].user /\ req[v].type = req[w].type
        /\ req[v].old # Steps(<<>>)
        /\ Len(req[v].steps) = 2

\* C24: a condition is classified the same on both surfaces; a routine read
\* with a type other than morning or night is answered 400 with the
\* credential (list_routine) and through the bot (get_telegram_routine, for a
\* linked Telegram id).
C24_InvalidTypeRejected ==
    [][/\ nreq' # nreq =>
             \A w \in Workers : FreeWorker(w) =>
                \A u \in UserIds, ty \in RequestedTypes \ RoutineTypes :
                   list_routine(w, u, ty) => last'.status = 400
       /\ \A w \in Workers :
             (req[w].op = "telegram_routine" /\ req'[w] = Idle
                 /\ req[w].type \notin RoutineTypes) => last'.status = 400
      ]_vars

Next ==
    \/ NextLink
    \/ NextLog
    \/ NextAuth
    \/ NextSum
    \/ NextWeek
    \/ NextRoutine
    \/ NextIso

Spec == Init /\ [][Next]_vars
====
